---- MODULE Spec2Model ----
(***************************************************************************)
(* Concerto: the metamodel converter (introspect/metamodel.js) and the     *)
(* runtime Typed instance (model/typed.js).                                *)
(*                                                                         *)
(* JavaScript objects are records whose DOMAIN is the set of keys that are *)
(* set; a key that is missing reads as undefined, which is falsy.  Text is *)
(* a sequence of one-character strings where the code looks inside it      *)
(* (parseInt, parseFloat, startsWith) and a string where it only compares. *)
(***************************************************************************)
EXTENDS Integers, Sequences, FiniteSets, TLC

VARIABLES
    ast,         \* metamodel.js: the AST handed to astToMetaModel
    out,         \* metamodel.js: what astToMetaModel returned or threw
    pc,          \* metamodel.js: "parsed" before the call, "converted" after
    self,        \* typed.js: the own properties of one Typed instance (`this`)
    superType,   \* the model: each class declaration's super-type declaration, 0 for none
    properties,  \* the model: getProperties() of the instance's class declaration
    ret,         \* typed.js: the last call on the instance and how it ended
    appended,    \* history: per property, the values appended since it was absent
    constructed, \* history: the instance as the constructor left it
    sigilNamed,  \* history: some call has named a property that begins with '$'
    walk         \* typed.js: the running _instanceOf call, its loop variable and
                 \* the declarations it has examined

vars == <<ast, out, pc, self, superType, properties, ret, appended, constructed, sigilNamed, walk>>
convertVars == <<ast, out, pc>>
typedVars == <<self, superType, properties, ret, appended, constructed, sigilNamed, walk>>

(***************************************************************************)
(* Bounds of the explored inputs.                                          *)
(***************************************************************************)
MaxImports == 2
MaxDecls == 2
MaxProps == 2
\* class declarations in the model, declared fields of a class, array length
NumClasses == 3
MaxFields == 2
MaxArray == 2

RECURSIVE SeqsUpTo(_, _)
SeqsUpTo(S, n) ==
    IF n = 0 THEN {<<>>}
    ELSE LET shorter == SeqsUpTo(S, n - 1)
         IN shorter \cup {Append(s, x) : s \in {t \in shorter : Len(t) = n - 1}, x \in S}

(***************************************************************************)
(* JavaScript plumbing.                                                    *)
(***************************************************************************)
\* a completed call: either a returned value or a thrown error
Return(v) == [threw |-> FALSE, value |-> v]
Throw(e) == [threw |-> TRUE, error |-> e]

\* if (obj.key): the key is set (the parser sets it to a truthy value or leaves it null)
Truthy(obj, key) == key \in DOMAIN obj

\* String.prototype.startsWith on a name
startsWith(name, ch) == Len(name) > 0 /\ name[1] = ch

\* metamodel.js is a strict-mode module ('use strict') and declToMetaModel is
\* called as a plain function, so `this` inside it is undefined
this == [undefined |-> TRUE]

\* new IllegalModelException(message, modelFile, fileLocation): the arguments
\* the throw site passes; an argument that is not passed is left out
IllegalModelException(message, args) ==
    [name |-> "IllegalModelException", message |-> message] @@ args

\* evaluating `this.modelFile` when `this` is undefined
thisModelFile ==
    IF "undefined" \in DOMAIN this
    THEN Throw([name |-> "TypeError",
                message |-> [text |-> "Cannot read property 'modelFile' of undefined"]])
    ELSE Return(this.modelFile)

(***************************************************************************)
(* fieldToMetaModel, relationshipToMetaModel, enumPropertyToMetaModel      *)
(***************************************************************************)
PrimitiveTag(type) ==
    CASE type = "Integer" -> "concerto.metamodel.IntegerFieldDeclaration"
      [] type = "Long" -> "concerto.metamodel.LongFieldDeclaration"
      [] type = "Double" -> "concerto.metamodel.DoubleFieldDeclaration"
      [] type = "Boolean" -> "concerto.metamodel.BooleanFieldDeclaration"
      [] type = "DateTime" -> "concerto.metamodel.DateTimeFieldDeclaration"
      [] type = "String" -> "concerto.metamodel.StringFieldDeclaration"
      [] OTHER -> "concerto.metamodel.ObjectFieldDeclaration"

TypeIdentifier(name) ==
    ("$class" :> "concerto.metamodel.TypeIdentifier") @@ [name |-> name]

\* mutant: the switch has lost its case 'String'
fieldToMetaModel_StringAsObject(node) ==
    LET field == [name |-> node.id.name,
                  isArray |-> Truthy(node, "array"),
                  isOptional |-> Truthy(node, "optional")]
        type == node.propertyType.name
    IN  IF type \in {"Integer", "Long", "Double", "Boolean", "DateTime"}
        THEN ("$class" :> PrimitiveTag(type)) @@ field
        ELSE ("$class" :> "concerto.metamodel.ObjectFieldDeclaration") @@ field
                @@ [type |-> TypeIdentifier(type)]

fieldToMetaModel(node) ==
    LET field == [name |-> node.id.name,
                  isArray |-> Truthy(node, "array"),
                  isOptional |-> Truthy(node, "optional")]
        type == node.propertyType.name
        tag == PrimitiveTag(type)
    IN  IF tag = "concerto.metamodel.ObjectFieldDeclaration"
        THEN ("$class" :> tag) @@ field @@ [type |-> TypeIdentifier(type)]
        ELSE ("$class" :> tag) @@ field

\* mutant: the optional flag is read from ast.array, as three lines above it
relationshipToMetaModel_OptionalFromArray(node) ==
    ("$class" :> "concerto.metamodel.RelationshipDeclaration")
        @@ [type |-> TypeIdentifier(node.propertyType.name),
            name |-> node.id.name,
            isArray |-> Truthy(node, "array"),
            isOptional |-> Truthy(node, "array")]

relationshipToMetaModel(node) ==
    ("$class" :> "concerto.metamodel.RelationshipDeclaration")
        @@ [type |-> TypeIdentifier(node.propertyType.name),
            name |-> node.id.name,
            isArray |-> Truthy(node, "array"),
            isOptional |-> Truthy(node, "optional")]

enumPropertyToMetaModel(node) ==
    ("$class" :> "concerto.metamodel.EnumFieldDeclaration")
        @@ [name |-> node.id.name, isArray |-> FALSE, isOptional |-> FALSE]

(***************************************************************************)
(* declToMetaModel                                                         *)
(***************************************************************************)
RecognizedDeclarations ==
    {"AssetDeclaration", "TransactionDeclaration", "EventDeclaration",
     "ParticipantDeclaration", "EnumDeclaration", "ConceptDeclaration"}

\* the if / else-if chain on ast.type; "" stands for the final else branch
DeclarationTag(type) ==
    CASE type = "AssetDeclaration" -> "concerto.metamodel.AssetDeclaration"
      [] type = "TransactionDeclaration" -> "concerto.metamodel.TransactionDeclaration"
      [] type = "EventDeclaration" -> "concerto.metamodel.EventDeclaration"
      [] type = "ParticipantDeclaration" -> "concerto.metamodel.ParticipantDeclaration"
      [] type = "EnumDeclaration" -> "concerto.metamodel.EnumDeclaration"
      [] type = "ConceptDeclaration" -> "concerto.metamodel.ConceptDeclaration"
      [] OTHER -> ""

\* throw new IllegalModelException(message, this.modelFile, thing.location):
\* the arguments are evaluated before the exception is constructed
ThrowWithModelFile(message, location) ==
    IF thisModelFile.threw
    THEN thisModelFile
    ELSE Throw(IllegalModelException(message,
                   [modelFile |-> thisModelFile.value, fileLocation |-> location]))

\* one pass of the loop over ast.body.declarations
propertyToMetaModel(thing) ==
    IF Truthy(thing, "id") /\ Truthy(thing.id, "name") /\ startsWith(thing.id.name, "$")
    THEN ThrowWithModelFile([key |-> "Invalid field name", name |-> thing.id.name],
                            thing.location)
    ELSE CASE thing.type = "FieldDeclaration" -> Return(fieldToMetaModel(thing))
           [] thing.type = "RelationshipDeclaration" -> Return(relationshipToMetaModel(thing))
           [] thing.type = "EnumPropertyDeclaration" -> Return(enumPropertyToMetaModel(thing))
           [] OTHER ->
                ThrowWithModelFile([key |-> "classdeclaration-process-unrecmodelelem",
                                    type |-> thing.type], thing.location)

\* the loop itself: decl.fields grows in body order, the first throw ends it
RECURSIVE fieldsToMetaModel(_, _, _)
fieldsToMetaModel(things, n, fields) ==
    IF n > Len(things) THEN Return(fields)
    ELSE LET r == propertyToMetaModel(things[n])
         IN IF r.threw THEN r
            ELSE fieldsToMetaModel(things, n + 1, Append(fields, r.value))

\* mutant: the identifying field is not carried over
declToMetaModel_NoIdentifiedBy(node) ==
    IF DeclarationTag(node.type) = ""
    THEN Throw(IllegalModelException(
                   [key |-> "modelfile-constructor-unrecmodelelem", type |-> node.type],
                   [modelFile |-> this]))
    ELSE LET head == ("$class" :> DeclarationTag(node.type))
                         @@ [name |-> node.id.name, isAbstract |-> Truthy(node, "abstract")]
             super == IF Truthy(node, "classExtension")
                      THEN [superType |-> TypeIdentifier(node.classExtension.class.name)]
                      ELSE <<>>
             fields == fieldsToMetaModel(node.body.declarations, 1, <<>>)
         IN IF fields.threw THEN fields
            ELSE Return(head @@ super @@ [fields |-> fields.value])

declToMetaModel(node) ==
    IF DeclarationTag(node.type) = ""
    THEN Throw(IllegalModelException(
                   [key |-> "modelfile-constructor-unrecmodelelem", type |-> node.type],
                   [modelFile |-> this]))
    ELSE LET head == ("$class" :> DeclarationTag(node.type))
                         @@ [name |-> node.id.name, isAbstract |-> Truthy(node, "abstract")]
             super == IF Truthy(node, "classExtension")
                      THEN [superType |-> TypeIdentifier(node.classExtension.class.name)]
                      ELSE <<>>
             idf == IF Truthy(node, "idField")
                    THEN [identifiedByField |-> node.idField.name]
                    ELSE <<>>
             fields == fieldsToMetaModel(node.body.declarations, 1, <<>>)
         IN IF fields.threw THEN fields
            ELSE Return(head @@ super @@ idf @@ [fields |-> fields.value])

(***************************************************************************)
(* astToMetaModel                                                          *)
(***************************************************************************)
\* mutant: the resolution URI is not carried over
importToMetaModel_DropsUri(imp) ==
    ("$class" :> "concerto.metamodel.NamespaceImport") @@ [namespace |-> imp.namespace]

importToMetaModel(imp) ==
    ("$class" :> "concerto.metamodel.NamespaceImport")
        @@ [namespace |-> imp.namespace]
        @@ (IF Truthy(imp, "uri") THEN [uri |-> imp.uri] ELSE <<>>)

RECURSIVE declarationsToMetaModel(_, _, _)
declarationsToMetaModel(body, n, declarations) ==
    IF n > Len(body) THEN Return(declarations)
    ELSE LET r == declToMetaModel(body[n])
         IN IF r.threw THEN r
            ELSE declarationsToMetaModel(body, n + 1, Append(declarations, r.value))

astToMetaModel(a) ==
    LET head == ("$class" :> "concerto.metamodel.ModelFile") @@ [namespace |-> a.namespace]
        imports == IF Truthy(a, "imports")
                   THEN [imports |-> [i \in 1..Len(a.imports) |-> importToMetaModel(a.imports[i])]]
                   ELSE <<>>
        decls == declarationsToMetaModel(a.body, 1, <<>>)
    IN  IF decls.threw THEN decls
        ELSE Return(head @@ imports
                        @@ (IF Len(a.body) > 0 THEN [declarations |-> decls.value] ELSE <<>>))

(***************************************************************************)
(* The ASTs the parser hands to the converter.  A flag the parser leaves   *)
(* null is a key that is not set.                                          *)
(***************************************************************************)
PropertyKinds ==
    {"FieldDeclaration", "RelationshipDeclaration", "EnumPropertyDeclaration",
     "MapDeclaration"}
TypeNames == {"Integer", "Long", "Double", "Boolean", "DateTime", "String", "Person"}
DeclarationKinds == RecognizedDeclarations \cup {"ScalarDeclaration"}

Flag(key, on) == IF on THEN key :> key ELSE <<>>

PropertyNode(kind, name, type, array, optional) ==
    [type |-> kind, id |-> [name |-> name], propertyType |-> [name |-> type],
     location |-> [at |-> name]]
        @@ Flag("array", array) @@ Flag("optional", optional)

\* every property node with one name, plain or with the reserved sigil
PropertyNodes ==
    {PropertyNode(k, n, t, a, o) :
        k \in PropertyKinds, n \in {<<"v">>, <<"$", "v">>}, t \in TypeNames,
        a \in BOOLEAN, o \in BOOLEAN}

\* the property nodes that bodies of several properties are built from
CoreProperties ==
    {PropertyNode("FieldDeclaration", <<"a">>, "Integer", FALSE, FALSE),
     PropertyNode("FieldDeclaration", <<"b">>, "Person", TRUE, FALSE),
     PropertyNode("RelationshipDeclaration", <<"c">>, "Person", FALSE, TRUE),
     PropertyNode("EnumPropertyDeclaration", <<"d">>, "String", FALSE, FALSE),
     PropertyNode("FieldDeclaration", <<"$", "e">>, "String", FALSE, FALSE),
     PropertyNode("MapDeclaration", <<"f">>, "String", FALSE, FALSE)}

Bodies == SeqsUpTo(CoreProperties, MaxProps) \cup {<<p>> : p \in PropertyNodes}

DeclarationNode(kind, name, abstract, super, idField, body) ==
    [type |-> kind, id |-> [name |-> name], location |-> [at |-> name],
     body |-> [declarations |-> body]]
        @@ Flag("abstract", abstract)
        @@ (IF super # "" THEN [classExtension |-> [class |-> [name |-> super]]] ELSE <<>>)
        @@ (IF idField # <<>> THEN [idField |-> [name |-> idField]] ELSE <<>>)

\* every declaration header over every body
DeclarationNodes ==
    {DeclarationNode(k, <<"T">>, ab, su, idf, b) :
        k \in DeclarationKinds, ab \in BOOLEAN, su \in {"", "Base"},
        idf \in {<<>>, <<"a">>}, b \in Bodies}

\* the declarations that files of several declarations are built from
CoreDeclarations ==
    {DeclarationNode("AssetDeclaration", <<"A">>, FALSE, "", <<"a">>,
        <<PropertyNode("FieldDeclaration", <<"a">>, "String", FALSE, FALSE),
          PropertyNode("FieldDeclaration", <<"b">>, "Person", TRUE, TRUE)>>),
     DeclarationNode("ParticipantDeclaration", <<"B">>, TRUE, "A", <<>>, <<>>),
     DeclarationNode("EnumDeclaration", <<"C">>, FALSE, "", <<>>,
        <<PropertyNode("EnumPropertyDeclaration", <<"d">>, "String", FALSE, FALSE)>>),
     DeclarationNode("ConceptDeclaration", <<"D">>, FALSE, "", <<>>,
        <<PropertyNode("FieldDeclaration", <<"$", "e">>, "Long", FALSE, FALSE)>>),
     DeclarationNode("ScalarDeclaration", <<"E">>, FALSE, "", <<>>, <<>>)}

ImportNodes ==
    {[namespace |-> ns] @@ (IF u # "" THEN [uri |-> u] ELSE <<>>) :
        ns \in {"org.base", "org.other"},
        u \in {"", "https://models/base.cto", "https://models/other.cto"}}

ImportLists == SeqsUpTo(ImportNodes, MaxImports)

FileBodies == SeqsUpTo(CoreDeclarations, MaxDecls) \cup {<<d>> : d \in DeclarationNodes}

FileNode(hasImports, imports, body) ==
    [type |-> "Program", namespace |-> "org.acme", body |-> body]
        @@ (IF hasImports THEN [imports |-> imports] ELSE <<>>)

\* every import list over a few bodies, and every body without imports
ASTs ==
    {FileNode(TRUE, i, b) : i \in ImportLists, b \in SeqsUpTo(CoreDeclarations, 1)}
    \cup {FileNode(FALSE, <<>>, b) : b \in FileBodies}

(***************************************************************************)
(* typed.js: values.  A JavaScript value is a record with one key that     *)
(* names its kind: text (a string, as its characters), num (an integral    *)
(* number), dec (a number with decimals: digits / 10^places), nan, bool,   *)
(* arr (an array), moment (what Moment.parseZone gives), string (a string  *)
(* the code only passes on), decl (a ClassDeclaration), manager.           *)
(***************************************************************************)
NaN == [nan |-> TRUE]

\* ToBoolean of a value read from the instance
IsTruthy(v) ==
    CASE "num" \in DOMAIN v -> v.num # 0
      [] "text" \in DOMAIN v -> v.text # <<>>
      [] "string" \in DOMAIN v -> v.string # ""
      [] "bool" \in DOMAIN v -> v.bool
      [] "nan" \in DOMAIN v -> FALSE
      [] OTHER -> TRUE

DigitValue ==
    [c \in {"0", "1", "2", "3", "4", "5", "6", "7", "8", "9"} |->
        CASE c = "0" -> 0 [] c = "1" -> 1 [] c = "2" -> 2 [] c = "3" -> 3
          [] c = "4" -> 4 [] c = "5" -> 5 [] c = "6" -> 6 [] c = "7" -> 7
          [] c = "8" -> 8 [] c = "9" -> 9]

IsDigit(c) == c \in DOMAIN DigitValue

\* the text without its leading white space
RECURSIVE TrimStart(_)
TrimStart(t) ==
    IF t # <<>> /\ t[1] = " " THEN TrimStart(Tail(t)) ELSE t

\* the longest prefix of digits of a text
RECURSIVE DigitPrefix(_)
DigitPrefix(t) ==
    IF t # <<>> /\ IsDigit(t[1]) THEN <<t[1]>> \o DigitPrefix(Tail(t)) ELSE <<>>

RECURSIVE DecimalValue(_, _)
DecimalValue(digits, acc) ==
    IF digits = <<>> THEN acc
    ELSE DecimalValue(Tail(digits), 10 * acc + DigitValue[digits[1]])

HasSign(t) == t # <<>> /\ t[1] \in {"+", "-"}
Unsigned(t) == IF HasSign(t) THEN Tail(t) ELSE t
SignOf(t) == IF t # <<>> /\ t[1] = "-" THEN -1 ELSE 1

\* parseInt(text) in radix 10: white space, a sign, then digits up to the
\* first character that is not one; NaN when there is no digit
parseInt(text) ==
    LET t == TrimStart(text)
        digits == DigitPrefix(Unsigned(t))
    IN IF digits = <<>> THEN NaN
       ELSE [num |-> SignOf(t) * DecimalValue(digits, 0)]

\* a decimal without its trailing zero places
RECURSIVE Normalized(_, _)
Normalized(digits, places) ==
    IF places = 0 THEN [num |-> digits]
    ELSE IF digits % 10 = 0 THEN Normalized(digits \div 10, places - 1)
    ELSE [dec |-> digits, places |-> places]

\* parseFloat(text): white space, a sign, digits, and a point with digits
parseFloat(text) ==
    LET t == TrimStart(text)
        u == Unsigned(t)
        whole == DigitPrefix(u)
        rest == SubSeq(u, Len(whole) + 1, Len(u))
        frac == IF rest # <<>> /\ rest[1] = "." THEN DigitPrefix(Tail(rest)) ELSE <<>>
    IN IF whole = <<>> /\ frac = <<>> THEN NaN
       ELSE Normalized(SignOf(t) * DecimalValue(whole \o frac, 0), Len(frac))

\* Moment.parseZone(text): a moment that keeps the offset written in the text
MomentParseZone(text) == [moment |-> text, keepsOffset |-> TRUE]

(***************************************************************************)
(* typed.js: the Typed instance                                            *)
(***************************************************************************)
ClassIds == 1..NumClasses

\* ClassDeclaration.getFullyQualifiedName()
getFullyQualifiedName(d) == "org.acme.T" \o ToString(d)

\* ClassDeclaration.getSuperTypeDeclaration(): 0 stands for null
getSuperTypeDeclaration(d) == superType[d]

\* new Typed(modelManager, classDeclaration, ns, type)
Typed(modelManager, classDeclaration, ns, type) ==
    ("$modelManager" :> [manager |-> modelManager])
        @@ ("$classDeclaration" :> [decl |-> classDeclaration])
        @@ ("$namespace" :> [string |-> ns])
        @@ ("$type" :> [string |-> type])

_getClassDeclaration(inst) == inst["$classDeclaration"].decl
_getType(inst) == inst["$type"]
_getNamespace(inst) == inst["$namespace"]
_getFullyQualifiedType(inst) == getFullyQualifiedName(_getClassDeclaration(inst))

\* mutant: the value is stored as this.$type, not as this[propName]
_setPropertyValue_WritesType(inst, propName, value) ==
    [k \in DOMAIN inst |-> IF k = "$type" THEN value ELSE inst[k]]

\* this[propName] = value
_setPropertyValue(inst, propName, value) ==
    [k \in DOMAIN inst \cup {propName} |-> IF k = propName THEN value ELSE inst[k]]

\* mutant: the new value goes to the front of the array
_addArrayValue_Unshifts(inst, propName, value) ==
    IF propName \in DOMAIN inst /\ IsTruthy(inst[propName])
    THEN IF "arr" \in DOMAIN inst[propName]
         THEN Return(_setPropertyValue(inst, propName,
                         [arr |-> <<value>> \o inst[propName].arr]))
         ELSE Throw([name |-> "TypeError", message |-> "this[propName].push is not a function"])
    ELSE Return(_setPropertyValue(inst, propName, [arr |-> <<value>>]))

\* if (this[propName]) this[propName].push(value) else this[propName] = [value];
\* a truthy value that is no array has no push, and the call throws
_addArrayValue(inst, propName, value) ==
    IF propName \in DOMAIN inst /\ IsTruthy(inst[propName])
    THEN IF "arr" \in DOMAIN inst[propName]
         THEN Return(_setPropertyValue(inst, propName,
                         [arr |-> Append(inst[propName].arr, value)]))
         ELSE Throw([name |-> "TypeError", message |-> "this[propName].push is not a function"])
    ELSE Return(_setPropertyValue(inst, propName, [arr |-> <<value>>]))

\* field instanceof Field
IsField(field) == field.kind = "Field"

\* field.getDefaultValue(): the default's text, or null (here: the key is not set)
HasDefault(field) == "default" \in DOMAIN field

\* mutant: the chain has lost its branch for 'Integer'
CoercedDefault_NoIntegerBranch(field) ==
    CASE field.type = "String" -> [text |-> field.default]
      [] field.type = "Long" -> parseInt(field.default)
      [] field.type = "Double" -> parseFloat(field.default)
      [] field.type = "Boolean" -> [bool |-> field.default = <<"t", "r", "u", "e">>]
      [] field.type = "DateTime" -> MomentParseZone(field.default)
      [] OTHER -> [text |-> field.default]

\* the if / else-if chain on field.getType()
CoercedDefault(field) ==
    CASE field.type = "String" -> [text |-> field.default]
      [] field.type = "Integer" -> parseInt(field.default)
      [] field.type = "Long" -> parseInt(field.default)
      [] field.type = "Double" -> parseFloat(field.default)
      [] field.type = "Boolean" -> [bool |-> field.default = <<"t", "r", "u", "e">>]
      [] field.type = "DateTime" -> MomentParseZone(field.default)
      [] OTHER -> [text |-> field.default]

\* mutant: a Field without a default is given the zero of its type
ZeroOf(field) ==
    CASE field.type \in {"Integer", "Long", "Double"} -> [num |-> 0]
      [] field.type = "Boolean" -> [bool |-> FALSE]
      [] OTHER -> [text |-> <<>>]

RECURSIVE _assignFieldDefaults_ZeroFills(_, _, _)
_assignFieldDefaults_ZeroFills(inst, fields, n) ==
    IF n > Len(fields) THEN inst
    ELSE LET field == fields[n]
         IN IF IsField(field)
            THEN _assignFieldDefaults_ZeroFills(
                     _setPropertyValue(inst, field.name,
                         IF HasDefault(field) THEN CoercedDefault(field) ELSE ZeroOf(field)),
                     fields, n + 1)
            ELSE _assignFieldDefaults_ZeroFills(inst, fields, n + 1)

\* the loop over classDeclaration.getProperties()
RECURSIVE _assignFieldDefaults(_, _, _)
_assignFieldDefaults(inst, fields, n) ==
    IF n > Len(fields) THEN inst
    ELSE LET field == fields[n]
         IN IF IsField(field) /\ HasDefault(field)
            THEN _assignFieldDefaults(
                     _setPropertyValue(inst, field.name, CoercedDefault(field)),
                     fields, n + 1)
            ELSE _assignFieldDefaults(inst, fields, n + 1)

\* the while loop over the super-type declarations
RECURSIVE walkSuperTypes(_, _)
walkSuperTypes(superTypeDeclaration, fqt) ==
    IF superTypeDeclaration = 0 THEN FALSE
    ELSE IF getFullyQualifiedName(superTypeDeclaration) = fqt THEN TRUE
    ELSE walkSuperTypes(getSuperTypeDeclaration(superTypeDeclaration), fqt)

\* mutant: only the direct super-type is looked at
_instanceOf_DirectSuperOnly(inst, fqt) ==
    LET classDeclaration == _getClassDeclaration(inst)
        superTypeDeclaration == getSuperTypeDeclaration(classDeclaration)
    IN IF getFullyQualifiedName(classDeclaration) = fqt THEN TRUE
       ELSE superTypeDeclaration # 0 /\ getFullyQualifiedName(superTypeDeclaration) = fqt

_instanceOf(inst, fqt) ==
    LET classDeclaration == _getClassDeclaration(inst)
    IN IF getFullyQualifiedName(classDeclaration) = fqt THEN TRUE
       ELSE walkSuperTypes(getSuperTypeDeclaration(classDeclaration), fqt)

\* no _instanceOf call has been made
NoCall ==
    [pc |-> "idle", fqt |-> "", superTypeDeclaration |-> 0, examined |-> <<>>,
     result |-> FALSE]

\* _instanceOf up to the loop: the test of the instance's own declaration and
\* the first value of the loop variable
enterInstanceOf(inst, fqt) ==
    LET classDeclaration == _getClassDeclaration(inst)
    IN IF getFullyQualifiedName(classDeclaration) = fqt
       THEN [pc |-> "done", fqt |-> fqt, superTypeDeclaration |-> 0,
             examined |-> <<classDeclaration>>, result |-> TRUE]
       ELSE [pc |-> "while", fqt |-> fqt,
             superTypeDeclaration |-> getSuperTypeDeclaration(classDeclaration),
             examined |-> <<classDeclaration>>, result |-> FALSE]

\* mutant: the loop variable is not advanced
whileSuperTypeDeclaration_NoAdvance(w) ==
    IF w.superTypeDeclaration = 0
    THEN [w EXCEPT !.pc = "done", !.result = FALSE]
    ELSE IF getFullyQualifiedName(w.superTypeDeclaration) = w.fqt
    THEN [w EXCEPT !.pc = "done", !.result = TRUE,
                   !.examined = Append(@, w.superTypeDeclaration)]
    ELSE [w EXCEPT !.examined = Append(@, w.superTypeDeclaration)]

\* one test of the loop condition, and one pass through the body if it holds
whileSuperTypeDeclaration(w) ==
    IF w.superTypeDeclaration = 0
    THEN [w EXCEPT !.pc = "done", !.result = FALSE]
    ELSE IF getFullyQualifiedName(w.superTypeDeclaration) = w.fqt
    THEN [w EXCEPT !.pc = "done", !.result = TRUE,
                   !.examined = Append(@, w.superTypeDeclaration)]
    ELSE [w EXCEPT !.examined = Append(@, w.superTypeDeclaration),
                   !.superTypeDeclaration =
                       getSuperTypeDeclaration(w.superTypeDeclaration)]

\* mutant: the guard is gone and the instance is handed out
_toJSON_ReturnsInstance(inst) == Return(inst)

_toJSON(inst) ==
    Throw([name |-> "Error",
           message |-> "Use Serializer.toJSON to convert resource instances to JSON objects."])

(***************************************************************************)
(* The models and calls the Typed instance is explored with.               *)
(***************************************************************************)
PropName(n) == "p" \o ToString(n)

\* the properties the calls on the instance name
TypedNames == {PropName(1), PropName(2)}

\* the keys the constructor sets, all beginning with the reserved sigil
MetadataNames == {"$modelManager", "$classDeclaration", "$namespace", "$type"}

\* the name beginning with '$' that calls on the instance pass, and the
\* values they pass with it: the class declarations of the model
SigilNames == {"$classDeclaration"}
SigilValues == {[decl |-> d] : d \in ClassIds}

AllNames == TypedNames \cup {PropName(n) : n \in 1..MaxFields} \cup SigilNames

\* the values the calls on the instance pass: one truthy, one falsy
Values == {[text |-> <<"x">>], [num |-> 0]}

\* the default texts the grammar admits for each type of field
DefaultTexts(type) ==
    CASE type = "Integer" -> {<<"5">>, <<"-", "4", "2">>, <<"0">>, <<"+", "7">>}
      [] type = "Long" -> {<<"5">>, <<"9", "0", "0", "0">>}
      [] type = "Double" -> {<<"1", ".", "5">>, <<"2", ".", "0">>, <<"-", "0", ".", "2", "5">>}
      [] type = "Boolean" -> {<<"t", "r", "u", "e">>, <<"f", "a", "l", "s", "e">>, <<"y", "e", "s">>}
      [] type = "DateTime" -> {<<"2", "0", "2", "0", "-", "0", "1", "-", "0", "1", "T",
                                 "0", "9", ":", "0", "0", "+", "0", "2", ":", "0", "0">>}
      [] type = "String" -> {<<"5">>, <<"t", "r", "u", "e">>}
      [] type = "Color" -> {<<"R", "E", "D">>}
      [] OTHER -> {}

FieldTypes == {"Integer", "Long", "Double", "Boolean", "DateTime", "String", "Color", "Person"}

\* a declared property without its name: a Field with or without a default,
\* or a Relationship
PropertyShapes ==
    {[kind |-> "Field", type |-> t] : t \in FieldTypes}
    \cup UNION {{[kind |-> "Field", type |-> t, default |-> d] : d \in DefaultTexts(t)} :
                   t \in FieldTypes}
    \cup {[kind |-> "Relationship", type |-> "Person"]}

\* getProperties(): the n-th property is named PropName(n)
PropertyList(shapes) == [i \in DOMAIN shapes |-> [name |-> PropName(i)] @@ shapes[i]]

\* the chain 1 <- 2 <- ... of class declarations
Chain == [d \in ClassIds |-> d - 1]

RECURSIVE ReachesRoot(_, _, _)
ReachesRoot(f, d, n) ==
    IF d = 0 THEN TRUE
    ELSE IF n = 0 THEN FALSE
    ELSE ReachesRoot(f, f[d], n - 1)

\* every single-parent acyclic hierarchy over the class declarations
Hierarchies ==
    {f \in [ClassIds -> 0..NumClasses] : \A d \in ClassIds : ReachesRoot(f, d, NumClasses)}

TypeNamesAsked == {getFullyQualifiedName(d) : d \in ClassIds} \cup {"org.other.T1"}

NewInstance(d) == Typed(1, d, "org.acme", "T" \o ToString(d))

Overwritten == [pure |-> FALSE, seq |-> <<>>]
NothingAppended ==
    [n \in AllNames |-> IF n \in MetadataNames THEN Overwritten
                        ELSE [pure |-> TRUE, seq |-> <<>>]]

(***************************************************************************)
(* The state machines.                                                     *)
(***************************************************************************)
NoConversion ==
    /\ ast = <<>>
    /\ out = <<>>
    /\ pc = "idle"

NoInstance ==
    /\ self = <<>>
    /\ superType = <<>>
    /\ properties = <<>>
    /\ ret = [op |-> "none"]
    /\ appended = <<>>
    /\ constructed = <<>>
    /\ sigilNamed = FALSE
    /\ walk = NoCall

\* an AST comes in and astToMetaModel runs
InitConvert ==
    /\ ast \in ASTs
    /\ out = <<>>
    /\ pc = "parsed"
    /\ NoInstance

Convert ==
    /\ pc = "parsed"
    /\ out' = astToMetaModel(ast)
    /\ pc' = "converted"
    /\ UNCHANGED <<ast, typedVars>>

SpecConvert == InitConvert /\ [][Convert]_vars

\* a new instance of a class with the declared properties
InitFactory ==
    /\ NoConversion
    /\ superType = Chain
    /\ \E n \in 0..MaxFields : \E shapes \in [1..n -> PropertyShapes] :
          properties = PropertyList(shapes)
    /\ self = NewInstance(1)
    /\ ret = [op |-> "new"]
    /\ appended = NothingAppended
    /\ constructed = self
    /\ sigilNamed = FALSE
    /\ walk = NoCall

AssignFieldDefaults ==
    /\ self' = _assignFieldDefaults(self, properties, 1)
    /\ ret' = [op |-> "_assignFieldDefaults"]
    /\ appended' = [n \in AllNames |->
                       IF \E i \in 1..Len(properties) :
                              /\ properties[i].name = n
                              /\ IsField(properties[i]) /\ HasDefault(properties[i])
                       THEN Overwritten ELSE appended[n]]
    /\ UNCHANGED <<convertVars, superType, properties, constructed, sigilNamed, walk>>

SpecFactory == InitFactory /\ [][AssignFieldDefaults]_vars

\* an instance of any class of any hierarchy
InitInstanceOf ==
    /\ NoConversion
    /\ superType \in Hierarchies
    /\ properties = <<>>
    /\ \E d \in ClassIds : self = NewInstance(d)
    /\ ret = [op |-> "new"]
    /\ appended = NothingAppended
    /\ constructed = self
    /\ sigilNamed = FALSE
    /\ walk = NoCall

InstanceOf(fqt) ==
    /\ ret' = [op |-> "_instanceOf", fqt |-> fqt, result |-> _instanceOf(self, fqt)]
    /\ UNCHANGED <<convertVars, self, superType, properties, appended, constructed, sigilNamed, walk>>

NextInstanceOf == \E fqt \in TypeNamesAsked : InstanceOf(fqt)

SpecInstanceOf == InitInstanceOf /\ [][NextInstanceOf]_vars

\* the same call taken one loop test at a time
Returned(w) ==
    IF w.pc = "done"
    THEN [op |-> "_instanceOf", fqt |-> w.fqt, result |-> w.result]
    ELSE ret

EnterInstanceOf(fqt) ==
    /\ walk.pc # "while"
    /\ walk' = enterInstanceOf(self, fqt)
    /\ ret' = Returned(walk')
    /\ UNCHANGED <<convertVars, self, superType, properties, appended, constructed, sigilNamed>>

WhileSuperTypeDeclaration ==
    /\ walk.pc = "while"
    /\ Len(walk.examined) <= NumClasses
    /\ walk' = whileSuperTypeDeclaration(walk)
    /\ ret' = Returned(walk')
    /\ UNCHANGED <<convertVars, self, superType, properties, appended, constructed, sigilNamed>>

NextInstanceOfWalk ==
    \/ \E fqt \in TypeNamesAsked : EnterInstanceOf(fqt)
    \/ WhileSuperTypeDeclaration

SpecInstanceOfWalk == InitInstanceOf /\ [][NextInstanceOfWalk]_vars

\* an instance of one class of a chain, and the calls that read and write it
InitTyped ==
    /\ NoConversion
    /\ superType = Chain
    /\ properties = <<>>
    /\ \E d \in ClassIds : self = NewInstance(d)
    /\ ret = [op |-> "new"]
    /\ appended = NothingAppended
    /\ constructed = self
    /\ sigilNamed = FALSE
    /\ walk = NoCall

SetPropertyValue(propName, value) ==
    /\ self' = _setPropertyValue(self, propName, value)
    /\ ret' = [op |-> "_setPropertyValue", propName |-> propName]
    /\ appended' = [appended EXCEPT ![propName] = Overwritten]
    /\ sigilNamed' = (sigilNamed \/ propName \in SigilNames)
    /\ UNCHANGED <<convertVars, superType, properties, constructed, walk>>

AddArrayValue(propName, value) ==
    /\ propName \in DOMAIN self /\ "arr" \in DOMAIN self[propName]
          => Len(self[propName].arr) < MaxArray
    /\ LET r == _addArrayValue(self, propName, value)
       IN /\ self' = IF r.threw THEN self ELSE r.value
          /\ ret' = [op |-> "_addArrayValue", propName |-> propName, value |-> value,
                     threw |-> r.threw, before |-> self]
          /\ appended' =
                IF ~r.threw /\ appended[propName].pure
                THEN [appended EXCEPT ![propName].seq = Append(@, value)]
                ELSE appended
    /\ sigilNamed' = (sigilNamed \/ propName \in SigilNames)
    /\ UNCHANGED <<convertVars, superType, properties, constructed, walk>>

ToJSON ==
    /\ ret' = [op |-> "_toJSON", before |-> self] @@ _toJSON(self)
    /\ UNCHANGED <<convertVars, self, superType, properties, appended, constructed, sigilNamed, walk>>

NextTyped ==
    \/ \E n \in TypedNames, v \in Values : SetPropertyValue(n, v)
    \/ \E n \in TypedNames, v \in Values : AddArrayValue(n, v)
    \/ \E n \in SigilNames, v \in SigilValues : SetPropertyValue(n, v)
    \/ \E n \in SigilNames, v \in SigilValues : AddArrayValue(n, v)
    \/ \E fqt \in TypeNamesAsked : InstanceOf(fqt)
    \/ ToJSON

SpecTyped == InitTyped /\ [][NextTyped]_vars

(***************************************************************************)
(* Claims about the metamodel converter                                    *)
(***************************************************************************)
Converted == pc = "converted"
ConvertedOk == pc = "converted" /\ ~out.threw

PropertiesOf(i) == ast.body[i].body.declarations

HasSigilProperty ==
    \E i \in 1..Len(ast.body) : \E j \in 1..Len(PropertiesOf(i)) :
        startsWith(PropertiesOf(i)[j].id.name, "$")

\* C1: whenever some declaration of the AST holds a property whose name
\* begins with '$', astToMetaModel throws an IllegalModelException and
\* returns no metamodel.
C1_SigilRejectedAsIllegalModel ==
    (Converted /\ HasSigilProperty) =>
        (out.threw /\ out.error.name = "IllegalModelException")

PrimitiveTypes == {"Integer", "Long", "Double", "Boolean", "DateTime", "String"}

\* the first declaration the converter cannot convert, 0 when there is none
FirstFailing ==
    LET failing == {i \in 1..Len(ast.body) : declToMetaModel(ast.body[i]).threw}
    IN IF failing = {} THEN 0 ELSE CHOOSE i \in failing : \A k \in failing : i <= k

\* C2: a declaration node of an unrecognized kind makes the converter fail
\* with an error carrying the kind name and the node's source location, and
\* a declaration of a recognized kind is tagged 'concerto.metamodel.<Kind>'.
C2_UnrecognizedKindCarriesKindAndLocation ==
    Converted =>
        /\ \A i \in 1..Len(ast.body) :
              (i = FirstFailing /\ ast.body[i].type \notin RecognizedDeclarations) =>
                  /\ out.threw
                  /\ "type" \in DOMAIN out.error.message
                  /\ out.error.message.type = ast.body[i].type
                  /\ "fileLocation" \in DOMAIN out.error
                  /\ out.error.fileLocation = ast.body[i].location
        /\ ~out.threw =>
              \A i \in 1..Len(ast.body) :
                  out.value.declarations[i]["$class"]
                      = "concerto.metamodel." \o ast.body[i].type

\* C3: a FieldDeclaration node is tagged '<Kind>FieldDeclaration' exactly
\* when its type name is one of the six primitive names, and otherwise
\* ObjectFieldDeclaration with a TypeIdentifier naming the declared type; the
\* output field has a `type` if and only if the field is not primitive.
C3_FieldTagging ==
    ConvertedOk =>
        \A i \in 1..Len(ast.body) : \A j \in 1..Len(PropertiesOf(i)) :
            LET node == PropertiesOf(i)[j]
                t == node.propertyType.name
                f == out.value.declarations[i].fields[j]
            IN node.type = "FieldDeclaration" =>
                /\ (t \in PrimitiveTypes) <=>
                       (f["$class"] = "concerto.metamodel." \o t \o "FieldDeclaration")
                /\ (t \notin PrimitiveTypes) <=>
                       (f["$class"] = "concerto.metamodel.ObjectFieldDeclaration")
                /\ ("type" \in DOMAIN f) <=> (t \notin PrimitiveTypes)
                /\ ("type" \in DOMAIN f) =>
                       f.type = ("$class" :> "concerto.metamodel.TypeIdentifier"
                                    @@ "name" :> t)

C3_Witness ==
    /\ ConvertedOk
    /\ \E i \in 1..Len(ast.body) : \E j, k \in 1..Len(PropertiesOf(i)) :
          /\ PropertiesOf(i)[j].type = "FieldDeclaration"
          /\ PropertiesOf(i)[j].propertyType.name = "String"
          /\ PropertiesOf(i)[k].type = "FieldDeclaration"
          /\ PropertiesOf(i)[k].propertyType.name = "Person"
          /\ "type" \in DOMAIN out.value.declarations[i].fields[k]

\* C4: in a successful conversion the i-th output declaration is the i-th
\* body element and the j-th of its fields the j-th body property (same
\* count, same order); each declaration has name, a boolean isAbstract and
\* fields, superType (a TypeIdentifier naming the extended class) exactly
\* when the node has a class extension, and identifiedByField exactly when
\* the node has an identifying field.
C4_DeclarationsInOrder ==
    ConvertedOk =>
        /\ ("declarations" \in DOMAIN out.value) <=> (Len(ast.body) > 0)
        /\ Len(ast.body) > 0 =>
            /\ Len(out.value.declarations) = Len(ast.body)
            /\ \A i \in 1..Len(ast.body) :
                LET node == ast.body[i]
                    d == out.value.declarations[i]
                IN /\ {"name", "isAbstract", "fields"} \subseteq DOMAIN d
                   /\ d.name = node.id.name
                   /\ d.isAbstract \in BOOLEAN
                   /\ Len(d.fields) = Len(PropertiesOf(i))
                   /\ \A j \in 1..Len(PropertiesOf(i)) :
                          d.fields[j].name = PropertiesOf(i)[j].id.name
                   /\ ("superType" \in DOMAIN d) <=> ("classExtension" \in DOMAIN node)
                   /\ ("superType" \in DOMAIN d) =>
                          d.superType = ("$class" :> "concerto.metamodel.TypeIdentifier"
                                            @@ "name" :> node.classExtension.class.name)
                   /\ ("identifiedByField" \in DOMAIN d) <=> ("idField" \in DOMAIN node)

C4_Witness ==
    /\ ConvertedOk
    /\ Len(ast.body) = 2
    /\ Len(PropertiesOf(1)) = 2
    /\ "idField" \in DOMAIN ast.body[1]
    /\ "classExtension" \in DOMAIN ast.body[2]
    /\ "classExtension" \notin DOMAIN ast.body[1]
    /\ out.value.declarations[2].superType.name = "A"
    /\ out.value.declarations[1].identifiedByField = <<"a">>

\* C10: a returned metamodel carries the imports through verbatim: one
\* NamespaceImport per AST import, in the same order, with the same
\* namespace, and with a uri exactly when the AST import has one, of the
\* same value.
C10_ImportsVerbatim ==
    ConvertedOk =>
        /\ ("imports" \in DOMAIN out.value) <=> ("imports" \in DOMAIN ast)
        /\ "imports" \in DOMAIN ast =>
            /\ Len(out.value.imports) = Len(ast.imports)
            /\ \A i \in 1..Len(ast.imports) :
                LET imp == ast.imports[i]
                    ns == out.value.imports[i]
                IN /\ ns["$class"] = "concerto.metamodel.NamespaceImport"
                   /\ ns.namespace = imp.namespace
                   /\ ("uri" \in DOMAIN ns) <=> ("uri" \in DOMAIN imp)
                   /\ ("uri" \in DOMAIN ns) => ns.uri = imp.uri

C10_Witness ==
    /\ ConvertedOk
    /\ "imports" \in DOMAIN ast
    /\ Len(ast.imports) = 2
    /\ "uri" \in DOMAIN ast.imports[1]
    /\ "uri" \notin DOMAIN ast.imports[2]
    /\ ast.imports[1].namespace # ast.imports[2].namespace
    /\ out.value.imports[1].uri = ast.imports[1].uri

\* C11: every property of a returned metamodel has name and boolean isArray
\* and isOptional; for a field and for a relationship the two flags equal
\* the presence of the node's array and optional flags; an enum member has
\* both flags false and no type; a relationship has a TypeIdentifier naming
\* the target type.
C11_PropertyFlags ==
    ConvertedOk =>
        \A i \in 1..Len(ast.body) : \A j \in 1..Len(PropertiesOf(i)) :
            LET node == PropertiesOf(i)[j]
                f == out.value.declarations[i].fields[j]
            IN /\ {"name", "isArray", "isOptional"} \subseteq DOMAIN f
               /\ f.name = node.id.name
               /\ f.isArray \in BOOLEAN /\ f.isOptional \in BOOLEAN
               /\ node.type \in {"FieldDeclaration", "RelationshipDeclaration"} =>
                      /\ f.isArray <=> ("array" \in DOMAIN node)
                      /\ f.isOptional <=> ("optional" \in DOMAIN node)
               /\ node.type = "EnumPropertyDeclaration" =>
                      /\ ~f.isArray /\ ~f.isOptional
                      /\ "type" \notin DOMAIN f
               /\ node.type = "RelationshipDeclaration" =>
                      /\ "type" \in DOMAIN f
                      /\ f.type = ("$class" :> "concerto.metamodel.TypeIdentifier"
                                     @@ "name" :> node.propertyType.name)

C11_Witness ==
    /\ ConvertedOk
    /\ \E i \in 1..Len(ast.body) : \E j, k \in 1..Len(PropertiesOf(i)) :
          /\ PropertiesOf(i)[j].type = "RelationshipDeclaration"
          /\ "optional" \in DOMAIN PropertiesOf(i)[j]
          /\ "array" \notin DOMAIN PropertiesOf(i)[j]
          /\ out.value.declarations[i].fields[j].isOptional
          /\ ~out.value.declarations[i].fields[j].isArray
          /\ PropertiesOf(i)[k].type = "EnumPropertyDeclaration"
          /\ "type" \notin DOMAIN out.value.declarations[i].fields[k]

(***************************************************************************)
(* Claims about the Typed instance                                         *)
(***************************************************************************)
Assigned == ret.op = "_assignFieldDefaults"

\* the integers the default texts of the explored models denote
DenotedInteger(text) ==
    CASE text = <<"5">> -> 5
      [] text = <<"-", "4", "2">> -> -42
      [] text = <<"0">> -> 0
      [] text = <<"+", "7">> -> 7
      [] text = <<"9", "0", "0", "0">> -> 9000

C6_NoDefaultLeftUnset ==
    Assigned =>
        \A i \in 1..Len(properties) :
            LET field == properties[i]
            IN (field.kind = "Relationship" \/ "default" \notin DOMAIN field) =>
                field.name \notin DOMAIN self

C6_Witness ==
    /\ Assigned
    /\ Len(properties) = 2
    /\ properties[1].kind = "Field" /\ properties[1].type = "Integer"
    /\ "default" \notin DOMAIN properties[1]
    /\ properties[1].name \notin DOMAIN self
    /\ "default" \in DOMAIN properties[2]
    /\ properties[2].name \in DOMAIN self

\* the declarations on the super-type chain of d, d itself included
RECURSIVE ChainOf(_, _)
ChainOf(S, n) ==
    IF n = 0 THEN S
    ELSE ChainOf((S \cup {superType[d] : d \in S}) \ {0}, n - 1)

BoundDeclaration == self["$classDeclaration"].decl

\* C7: _instanceOf(N) is true if and only if N is the fully-qualified name
\* of the instance's declaration or of a declaration on its super-type chain.
C7_InstanceOfIsChainMembership ==
    ret.op = "_instanceOf" =>
        (ret.result <=>
            \E d \in ChainOf({BoundDeclaration}, NumClasses) :
                ret.fqt = "org.acme.T" \o ToString(d))

C7_Witness ==
    /\ ret.op = "_instanceOf"
    /\ ret.result
    /\ superType[BoundDeclaration] # 0
    /\ superType[superType[BoundDeclaration]] # 0
    /\ ret.fqt = "org.acme.T" \o ToString(superType[superType[BoundDeclaration]])

\* C8: _toJSON always throws an error that points the caller to the
\* Serializer, and leaves every property and the metadata as they were.
C8_ToJSONAlwaysFails ==
    ret.op = "_toJSON" =>
        /\ ret.threw
        /\ ret.error.name = "Error"
        /\ ret.error.message
               = "Use Serializer.toJSON to convert resource instances to JSON objects."
        /\ self = ret.before

C8_Witness ==
    /\ ret.op = "_toJSON"
    /\ ret.threw
    /\ \E n \in TypedNames : n \in DOMAIN self /\ "arr" \in DOMAIN self[n]
    /\ \E n \in TypedNames : n \in DOMAIN self /\ "text" \in DOMAIN self[n]

\* C9: _addArrayValue makes a one-element array when the property is absent
\* and appends when it holds an array; after appends v1..vk to a property
\* that was absent the property holds exactly <<v1, ..., vk>>, and an append
\* changes no other property of the instance.
C9_AppendsInCallOrder ==
    /\ \A n \in TypedNames :
          appended[n].pure =>
              IF appended[n].seq = <<>> THEN n \notin DOMAIN self
              ELSE n \in DOMAIN self /\ self[n] = [arr |-> appended[n].seq]
    /\ ret.op = "_addArrayValue" =>
          /\ DOMAIN self \ {ret.propName} = DOMAIN ret.before \ {ret.propName}
          /\ \A m \in DOMAIN self \ {ret.propName} : self[m] = ret.before[m]
          /\ ret.propName \notin DOMAIN ret.before =>
                 ~ret.threw /\ self[ret.propName] = [arr |-> <<ret.value>>]
          /\ (ret.propName \in DOMAIN ret.before
                /\ "arr" \in DOMAIN ret.before[ret.propName]) =>
                 /\ ~ret.threw
                 /\ self[ret.propName]
                        = [arr |-> Append(ret.before[ret.propName].arr, ret.value)]

C9_Witness ==
    /\ ret.op = "_addArrayValue"
    /\ \E n \in TypedNames :
          /\ ret.propName = n
          /\ appended[n].pure
          /\ Len(appended[n].seq) = 2
          /\ appended[n].seq[1] # appended[n].seq[2]
          /\ self[n] = [arr |-> appended[n].seq]
          /\ \E m \in TypedNames \ {n} : m \in DOMAIN self

SameAnswers(inst, other) ==
    /\ _getNamespace(inst) = _getNamespace(other)
    /\ _getType(inst) = _getType(other)
    /\ _getFullyQualifiedType(inst) = _getFullyQualifiedType(other)
    /\ \A fqt \in TypeNamesAsked : _instanceOf(inst, fqt) <=> _instanceOf(other, fqt)

C13_InstanceOfEndsWithinChain ==
    walk.pc # "idle" =>
        LET e == walk.examined
            chain == ChainOf({BoundDeclaration}, NumClasses)
            last == e[Len(e)]
        IN /\ Len(e) >= 1 /\ e[1] = BoundDeclaration
           /\ \A i \in 1..(Len(e) - 1) : e[i + 1] = superType[e[i]]
           /\ \A i, j \in 1..Len(e) : e[i] = e[j] => i = j
           /\ Len(e) <= Cardinality(chain)
           /\ walk.pc = "while" =>
                 /\ ENABLED WhileSuperTypeDeclaration
                 /\ walk.superTypeDeclaration = superType[last]
                 /\ \A i \in 1..Len(e) : walk.superTypeDeclaration # e[i]
                 /\ \A i \in 1..Len(e) : getFullyQualifiedName(e[i]) # walk.fqt
           /\ walk.pc = "done" =>
                 /\ walk.result = _instanceOf(self, walk.fqt)
                 /\ walk.result => getFullyQualifiedName(last) = walk.fqt
                 /\ ~walk.result => Len(e) = Cardinality(chain)

C13_Witness ==
    /\ walk.pc = "done"
    /\ ~walk.result
    /\ Len(walk.examined) = NumClasses
    /\ superType[walk.examined[NumClasses]] = 0

====
